---- MODULE Spec2Model ----
(***************************************************************************)
(* Model of pycaret/internal/plots/time_series.py: the dispatcher plot_    *)
(* and the eight plotting functions.  A figure is the sequence of the      *)
(* operations applied to it (traces added, axis and layout updates); the   *)
(* display records a snapshot of the figure each time fig.show() runs.     *)
(* Python sequences are 0-based; the model keeps TLA+ 1-based sequences    *)
(* and subscripts them through At.                                         *)
(***************************************************************************)
EXTENDS Integers, Sequences, FiniteSets, TLC

VARIABLES
    data, train, test, predictions, upper_interval, lower_interval,
        \* the caller's series objects (pd.Series with a PeriodIndex)
    cv_arg,       \* the caller's cross-validation splitter
    return_data_arg, show_arg,    \* the flags the caller passes
    acf_data, pacf_data,  \* what statsmodels acf / pacf compute for data
    backend,      \* matplotlib's process-wide backend
    open_figs,    \* number of figures registered with matplotlib.pyplot
    call,         \* the last top-level call: function and plot name
    calls,        \* plotting functions invoked by plot_ in the last call
    built,        \* plotly figures constructed during the last call
    shown,        \* snapshots displayed by fig.show() during the last call
    result        \* the value the last call returned (or the exception)

inputs == <<data, train, test, predictions, upper_interval, lower_interval,
            cv_arg, return_data_arg, show_arg, acf_data, pacf_data>>

vars == <<inputs, backend, open_figs, call, calls, built, shown, result>>

-----------------------------------------------------------------------------
(* Bounds *)

MaxLen == 3        \* longest input series

Values == {0, 1}           \* observations
CorrVals == {-1, 1}        \* correlation values at the lags after 0
Widths == {1, 2}           \* half-widths of the confidence interval

-----------------------------------------------------------------------------
(* Python helpers *)

Range(n) == [i \in 1..n |-> i - 1]                 \* range(n), np.arange(n)

DropLast(s) == IF Len(s) = 0 THEN <<>> ELSE SubSeq(s, 1, Len(s) - 1)   \* s[:-1]

InBounds(s, i) == i >= 0 /\ i < Len(s)

At(s, i) == s[i + 1]                               \* s[i], 0 <= i < len(s)

RECURSIVE Flatten(_)
Flatten(ss) == IF Len(ss) = 0 THEN <<>> ELSE Head(ss) \o Flatten(Tail(ss))

Reversed(s) == [i \in 1..Len(s) |-> s[Len(s) + 1 - i]]

-----------------------------------------------------------------------------
(* pandas: a series is its period index and its values *)

Series(start, vals) == [index |-> [i \in 1..Len(vals) |-> start + i - 1], values |-> vals]

to_timestamp(index) == [i \in 1..Len(index) |-> <<"ts", index[i]>>]

Shift(s, d) == [index |-> s.index, values |-> [i \in 1..Len(s.values) |-> s.values[i] + d]]

SeqsOver(S, lo, hi) == UNION {[1..n -> S] : n \in lo..hi}

-----------------------------------------------------------------------------
(* plotly: a figure is the sequence of operations applied to it *)

Scatter(name, x, y) == [name |-> name, x |-> x, y |-> y, at |-> <<>>]

Oper(op, arg, cell) ==
    [op |-> op, arg |-> arg, x |-> <<>>, y |-> <<>>, at |-> <<>>, cell |-> cell]

AddTrace(trace, cell) ==
    [op |-> "add_trace", arg |-> trace.name, x |-> trace.x, y |-> trace.y,
     at |-> trace.at, cell |-> cell]

\* go.Figure(data=traces, layout=go.Layout(..., title=title))
Figure(traces, title) ==
    [i \in 1..Len(traces) |-> AddTrace(traces[i], <<>>)]
        \o <<Oper("layout", <<"title", title>>, <<>>)>>

Traces(fig) == SelectSeq(fig, LAMBDA o : o.op = "add_trace")

\* What a call leaves behind: the value returned, the figures constructed,
\* the snapshots displayed and the process-wide matplotlib state.
NoFig == <<>>

Ret(kind, fig, rest) == [kind |-> kind, fig |-> fig, rest |-> rest]

ShowAlways(fig, show) == <<fig>>

\* if show: fig.show()
ShowIf(fig, show) == IF show THEN <<fig>> ELSE <<>>

ReturnNothingWithoutData(fig, rest, return_data) ==
    IF return_data THEN Ret("tuple", fig, rest) ELSE Ret("None", NoFig, <<>>)

\* if return_data: return fig, <rest> else: return fig
ReturnOf(fig, rest, return_data) ==
    IF return_data THEN Ret("tuple", fig, rest) ELSE Ret("fig", fig, <<>>)

Outcome(fig, rest, return_data, show, env) ==
    [ret |-> ReturnOf(fig, rest, return_data), built |-> <<fig>>,
     shown |-> ShowIf(fig, show), env |-> env]

-----------------------------------------------------------------------------
(* plot_series, plot_splits_tt *)

plot_series(d, return_data, show, env) ==
    LET original == Scatter(<<"Original">>, to_timestamp(d.index), d.values)
        plot_data == <<original>>
        fig == Figure(plot_data, "Time Series")
                 \o <<Oper("update_layout", <<"template", "simple_white">>, <<>>),
                      Oper("update_layout", <<"showlegend", "True">>, <<>>)>>
    IN  Outcome(fig, <<d>>, return_data, show, env)

plot_splits_tt(tr, te, return_data, show, env) ==
    LET fig == << AddTrace(Scatter(<<"Train">>, to_timestamp(tr.index), tr.values), <<>>),
                  AddTrace(Scatter(<<"Test">>, to_timestamp(te.index), te.values), <<>>),
                  Oper("update_layout", <<"title", "Train Test Split">>, <<>>),
                  Oper("update_layout", <<"template", "simple_white">>, <<>>) >>
    IN  Outcome(fig, << <<tr, te>> >>, return_data, show, env)

-----------------------------------------------------------------------------
(* plot_splits_cv and the cross-validation splitter it is given *)

\* forecasting horizons: sorted relative steps, as sktime keeps them
FhSet == {<<1>>, <<1, 2>>, <<1, 3>>}

StepLengths == {1}

Cvs == [kind : {"expanding", "sliding"}, window_length : 1..(MaxLen - 1),
        step_length : StepLengths, fh : FhSet]

\* cv.split(y): the (train, test) index arrays of each window
NumSplits(cv, n) ==
    LET last == n - cv.fh[Len(cv.fh)]
    IN  IF last < cv.window_length THEN 0
        ELSE ((last - cv.window_length) \div cv.step_length) + 1

split(y, cv) ==
    [j \in 1..NumSplits(cv, Len(y.values)) |->
        LET split_point == cv.window_length + (j - 1) * cv.step_length
            first == IF cv.kind = "sliding" THEN split_point - cv.window_length ELSE 0
        IN  [train |-> [i \in 1..(split_point - first) |-> first + i - 1],
             test |-> [i \in 1..Len(cv.fh) |-> split_point + cv.fh[i] - 1]]]

get_windows(y, cv) ==
    LET w == split(y, cv)
    IN  [train_windows |-> [j \in 1..Len(w) |-> w[j].train],
         test_windows |-> [j \in 1..Len(w) |-> w[j].test]]

IndexError == <<"IndexError">>

\* time_stamps[i]
Subscript(s, i) == IF InBounds(s, i) THEN At(s, i) ELSE IndexError

\* fig.add_scatter(x=(time_stamps[i], time_stamps[i + 1]), y=(num_window, num_window), name=name)
Segment(time_stamps, i, num_window, name) ==
    AddTrace([name |-> <<name>>,
              x |-> <<Subscript(time_stamps, i), Subscript(time_stamps, i + 1)>>,
              y |-> <<num_window, num_window>>,
              at |-> <<i, i + 1>>], <<>>)

WindowOpsWholeWindow(d, train_windows, test_windows, num_window) ==
    LET time_stamps == to_timestamp(d.index)
        n == Len(d.values)
        tr == At(train_windows, num_window)
        te == At(test_windows, num_window)
    IN  [k \in 1..Len(Range(n - 1)) |->
            Segment(time_stamps, Range(n - 1)[k], num_window, "Unchanged")]
        \o [k \in 1..Len(tr) |-> Segment(time_stamps, tr[k], num_window, "Train")]
        \o [k \in 1..Len(te) |-> Segment(time_stamps, te[k], num_window, "ForecastHorizon")]
        \o << Oper("update_traces", <<"showlegend", "False">>, <<>>),
              Oper("update_yaxes", <<"autorange", "reversed">>, <<>>),
              Oper("update_layout", <<"title", "Train Cross-Validation Splits">>, <<>>),
              Oper("update_layout", <<"template", "simple_white">>, <<>>) >>

\* one iteration of the loop over num_window
WindowOps(d, train_windows, test_windows, num_window) ==
    LET time_stamps == to_timestamp(d.index)
        n == Len(d.values)
        tr == DropLast(At(train_windows, num_window))
        te == DropLast(At(test_windows, num_window))
    IN  [k \in 1..Len(Range(n - 1)) |->
            Segment(time_stamps, Range(n - 1)[k], num_window, "Unchanged")]
        \o [k \in 1..Len(tr) |-> Segment(time_stamps, tr[k], num_window, "Train")]
        \o [k \in 1..Len(te) |-> Segment(time_stamps, te[k], num_window, "ForecastHorizon")]
        \o << Oper("update_traces", <<"showlegend", "False">>, <<>>),
              Oper("update_yaxes", <<"autorange", "reversed">>, <<>>),
              Oper("update_layout", <<"title", "Train Cross-Validation Splits">>, <<>>),
              Oper("update_layout", <<"template", "simple_white">>, <<>>) >>

plot_windows(d, train_windows, test_windows) ==
    LET order == Reversed(Range(Len(train_windows)))
    IN  Flatten([k \in 1..Len(order) |->
                    WindowOps(d, train_windows, test_windows, order[k])])

Failed(o) == o.op = "add_trace" /\ \E k \in 1..Len(o.x) : o.x[k] = IndexError

plot_splits_cv(d, cv, return_data, show, env) ==
    LET w == get_windows(d, cv)
        fig == plot_windows(d, w.train_windows, w.test_windows)
        bad == {k \in 1..Len(fig) : Failed(fig[k])}
    IN  IF bad = {}
        THEN Outcome(fig, <<d>>, return_data, show, env)
        ELSE \* the subscript raised: the figure holds what was added before it
             LET first == CHOOSE k \in bad : \A m \in bad : k <= m
             IN  [ret |-> Ret("IndexError", NoFig, <<>>),
                  built |-> <<SubSeq(fig, 1, first - 1)>>,
                  shown |-> <<>>, env |-> env]

-----------------------------------------------------------------------------
(* statsmodels acf / pacf with alpha: (values, confidence intervals).  The  *)
(* library is an oracle: any values, each with an interval around it; the   *)
(* correlation at lag 0 is 1 with an interval of width 0.                   *)

NoCorr == [values |-> <<>>, confint |-> <<>>]

CorrArray(v, w) ==
    [values |-> [x \in 1..Len(v) + 1 |-> IF x = 1 THEN 1 ELSE v[x - 1]],
     confint |-> [x \in 1..Len(v) + 1 |->
                     IF x = 1 THEN <<1, 1>> ELSE <<v[x - 1] - w, v[x - 1] + w>>]]

\* acf(data, alpha=0.05): lags 0..len(data)-1
acf(d) ==
    {CorrArray(v, w) : v \in [1..(Len(d.values) - 1) -> CorrVals], w \in Widths}

\* pacf(data, alpha=0.05): equal to the acf up to lag 1, its own values after
pacf(d, a) ==
    [values |-> [x \in 1..Len(a.values) |->
                    IF x <= 2 THEN a.values[x] ELSE 0 - a.values[x]],
     confint |-> [x \in 1..Len(a.values) |->
                    IF x <= 2 THEN a.confint[x]
                    ELSE <<0 - a.values[x] - 1, 0 - a.values[x] + 1>>]]

BandYNotCentred(corr, c) == [x \in 1..Len(corr.values) |-> corr.confint[x][c]]

\* corr_array[1][:, c] - corr_array[0]
BandY(corr, c) == [x \in 1..Len(corr.values) |-> corr.confint[x][c] - corr.values[x]]

\* fig.add_scatter(x=(x, x), y=(0, corr_array[0][x]), name=name)
Stem(corr, x, name, cell) ==
    AddTrace(Scatter(name, <<x, x>>, <<0, At(corr.values, x)>>), cell)

plot_acf(d, corr, return_data, show, env) ==
    LET n == Len(corr.values)
        lower_y == BandY(corr, 1)
        upper_y == BandY(corr, 2)
        fig == << AddTrace(Scatter(<<"ACF">>, Range(n), corr.values), <<>>) >>
               \o [k \in 1..n |-> Stem(corr, Range(n)[k], <<"Lag", (k - 1) + 1>>, <<>>)]
               \o << AddTrace(Scatter(<<"UC">>, Range(n), upper_y), <<>>),
                     AddTrace(Scatter(<<"LC">>, Range(n), lower_y), <<>>),
                     Oper("update_traces", <<"showlegend", "False">>, <<>>),
                     Oper("update_xaxes", <<"range", -1, 42>>, <<>>),
                     AddTrace(Scatter(<<"">>, <<0, n>>, <<0, 0>>), <<>>),
                     Oper("update_traces", <<"showlegend", "False">>, <<>>),
                     Oper("update_yaxes", <<"zerolinecolor", "#000000">>, <<>>),
                     Oper("update_layout", <<"template", "simple_white">>, <<>>),
                     Oper("update_layout", <<"title", "Autocorrelation (ACF)">>, <<>>) >>
    IN  Outcome(fig, <<corr.values>>, return_data, show, env)

plot_pacf(d, corr, return_data, show, env) ==
    LET n == Len(corr.values)
        lower_y == BandY(corr, 1)
        upper_y == BandY(corr, 2)
        fig == << AddTrace(Scatter(<<"PACF">>, Range(n), corr.values), <<>>) >>
               \o [k \in 1..n |-> Stem(corr, Range(n)[k], <<"Lag", (k - 1) + 1>>, <<>>)]
               \o << AddTrace(Scatter(<<"UC">>, Range(n), upper_y), <<>>),
                     AddTrace(Scatter(<<"LC">>, Range(n), lower_y), <<>>),
                     Oper("update_traces", <<"showlegend", "False">>, <<>>),
                     Oper("update_xaxes", <<"range", -1, 42>>, <<>>),
                     AddTrace(Scatter(<<"">>, <<0, n>>, <<0, 0>>), <<>>),
                     Oper("update_traces", <<"showlegend", "False">>, <<>>),
                     Oper("update_yaxes", <<"zerolinecolor", "#000000">>, <<>>),
                     Oper("update_layout", <<"template", "simple_white">>, <<>>),
                     Oper("update_layout", <<"title", "Partial Autocorrelation (PACF)">>, <<>>) >>
    IN  Outcome(fig, <<corr.values>>, return_data, show, env)

-----------------------------------------------------------------------------
(* plot_predictions, plot_predictions_with_confidence *)

plot_predictions(d, p, return_data, show, env) ==
    LET mean == Scatter(<<"Forecast">>, to_timestamp(p.index), p.values)
        original == Scatter(<<"Original">>, to_timestamp(d.index), d.values)
        data_ == <<mean, original>>       \* data = [mean, original]
        fig == Figure(data_, "Forecasts")
                 \o <<Oper("update_layout", <<"template", "simple_white">>, <<>>),
                      Oper("update_layout", <<"showlegend", "True">>, <<>>)>>
    IN  Outcome(fig, <<data_, p>>, return_data, show, env)

plot_predictions_with_confidence(d, p, up, lo, return_data, show, env) ==
    LET upper_bound == Scatter(<<"Upper interval">>, to_timestamp(up.index), up.values)
        mean == Scatter(<<"Forecast">>, to_timestamp(p.index), p.values)
        original == Scatter(<<"Original">>, to_timestamp(d.index), d.values)
        lower_bound == Scatter(<<"Lower Interval">>, to_timestamp(lo.index), lo.values)
        data_ == <<lower_bound, mean, upper_bound, original>>
        fig == Figure(data_, "Forecasts")
                 \o <<Oper("update_layout", <<"template", "simple_white">>, <<>>),
                      Oper("update_layout", <<"showlegend", "True">>, <<>>)>>
    IN  Outcome(fig, <<data_, p, up, lo>>, return_data, show, env)

-----------------------------------------------------------------------------
(* plot_diagnostics *)

Elems(s) == {s[i] : i \in 1..Len(s)}

Count(s, v) == Cardinality({i \in 1..Len(s) : s[i] = v})

Sorted(vals) ==
    CHOOSE s \in [1..Len(vals) -> Elems(vals)] :
        /\ \A i \in 1..(Len(vals) - 1) : s[i] <= s[i + 1]
        /\ \A v \in Elems(vals) : Count(s, v) = Count(vals, v)

\* statsmodels qqplot(data, line="s"): the lines of the matplotlib figure,
\* the sample quantiles against the theoretical ones and the fitted line
qqplot(d) ==
    LET n == Len(d.values)
    IN  << [xdata |-> [i \in 1..n |-> <<"quantile", i>>], ydata |-> Sorted(d.values)],
           [xdata |-> << <<"quantile", 1>>, <<"quantile", n>> >>,
            ydata |-> << <<"fit", 1>>, <<"fit", n>> >>] >>

\* matplotlib.use("Agg"); qqplot(...) registers a figure; plt.close(...) drops it
qq_env(env) == [backend |-> "Agg", open_figs |-> (env.open_figs + 1) - 1]

qq(d) ==
    LET qqplot_data == qqplot(d)
    IN  << AddTrace(Scatter(<<"data.name">>, qqplot_data[1].xdata, qqplot_data[1].ydata), <<2, 2>>),
           AddTrace(Scatter(<<"data.name">>, qqplot_data[2].xdata, qqplot_data[2].ydata), <<2, 2>>),
           Oper("update_xaxes", <<"title_text", "Theoritical Quantities">>, <<2, 2>>),
           Oper("update_yaxes", <<"title_text", "Sample Quantities">>, <<2, 2>>) >>

\* px.histogram(data): a figure of its own, never shown
histogram(d) == Figure(<<Scatter(<<"histogram">>, d.values, <<>>)>>, "")

dist_plot(d) ==
    LET temp_fig == histogram(d)
    IN  << [Traces(temp_fig)[1] EXCEPT !.cell = <<1, 2>>],
           Oper("update_xaxes", <<"title_text", "Range of Values">>, <<1, 2>>),
           Oper("update_yaxes", <<"title_text", "PDF">>, <<1, 2>>) >>

diag_plot_acf(corr) ==
    LET n == Len(corr.values)
        lower_y == BandY(corr, 1)
        upper_y == BandY(corr, 2)
    IN  [k \in 1..n |-> Stem(corr, Range(n)[k], <<"ACF">>, <<2, 1>>)]
        \o << AddTrace(Scatter(<<>>, Range(n), corr.values), <<2, 1>>),
              AddTrace(Scatter(<<"UC">>, Range(n), upper_y), <<2, 1>>),
              AddTrace(Scatter(<<"LC">>, Range(n), lower_y), <<2, 1>>),
              Oper("update_traces", <<"showlegend", "False">>, <<>>),
              Oper("update_xaxes", <<"range", -1, 42>>, <<2, 1>>),
              Oper("update_yaxes", <<"zerolinecolor", "#000000">>, <<2, 1>>),
              Oper("update_xaxes", <<"title_text", "Lags">>, <<2, 1>>),
              Oper("update_yaxes", <<"title_text", "ACF">>, <<2, 1>>) >>

time_plot(d) ==
    << AddTrace(Scatter(<<"Time Plot">>, to_timestamp(d.index), d.values), <<1, 1>>),
       Oper("update_xaxes", <<"title_text", "Time">>, <<1, 1>>),
       Oper("update_yaxes", <<"title_text", "Value">>, <<1, 1>>) >>

plot_diagnostics(d, corr, return_data, show, env) ==
    LET fig == << Oper("make_subplots", <<"rows", 2, "cols", 2>>, <<>>),
                  Oper("update_layout", <<"showlegend", "False">>, <<>>),
                  Oper("update_layout", <<"template", "simple_white">>, <<>>) >>
               \o qq(d) \o dist_plot(d) \o diag_plot_acf(corr) \o time_plot(d)
        o == Outcome(fig, <<d>>, return_data, show, qq_env(env))
    IN  [o EXCEPT !.built = <<fig, histogram(d)>>]

-----------------------------------------------------------------------------
(* plot_: the dispatcher *)

Supported == {"ts", "splits-tt", "splits_cv", "acf", "pacf", "predictions", "residuals"}

PlotNames == Supported \cup {"splits_tt", "splits-cv"}

None == Ret("None", NoFig, <<>>)

FallThrough(exc, env) ==
    [ret |-> None, built |-> <<>>, shown |-> <<>>, env |-> env, calls |-> <<>>]

\* raise ValueError(...)
Raise(exc, env) ==
    [ret |-> Ret(exc, NoFig, <<>>), built |-> <<>>, shown |-> <<>>, env |-> env,
     calls |-> <<>>]

Called(fn, return_data, show, o) ==
    <<[fn |-> fn, return_data |-> return_data, show |-> show, ret |-> o.ret]>>

DispatchedInverted(fn, o, return_data, show) ==
    [ret |-> IF o.ret.kind \in {"fig", "tuple"}
             THEN (IF return_data THEN None ELSE o.ret)
             ELSE o.ret,
     built |-> o.built, shown |-> o.shown, env |-> o.env,
     calls |-> Called(fn, return_data, show, o)]

DispatchedFigureOnly(fn, o, return_data, show) ==
    [ret |-> IF o.ret.kind \in {"fig", "tuple"}
             THEN (IF return_data THEN Ret("fig", o.ret.fig, <<>>) ELSE None)
             ELSE o.ret,
     built |-> o.built, shown |-> o.shown, env |-> o.env,
     calls |-> Called(fn, return_data, show, o)]

\* return plot_data if return_data else None
Dispatched(fn, o, return_data, show) ==
    [ret |-> IF o.ret.kind \in {"fig", "tuple"}
             THEN (IF return_data THEN o.ret ELSE None)
             ELSE o.ret,
     built |-> o.built, shown |-> o.shown, env |-> o.env,
     calls |-> Called(fn, return_data, show, o)]

plot_(plot, d, tr, te, p, cv, acf_d, pacf_d, return_data, show, env) ==
    IF plot = "ts"
    THEN Dispatched("plot_series", plot_series(d, return_data, show, env),
                    return_data, show)
    ELSE IF plot = "splits-tt"
    THEN Dispatched("plot_splits_tt", plot_splits_tt(tr, te, return_data, show, env),
                    return_data, show)
    ELSE IF plot = "splits_cv"
    THEN Dispatched("plot_splits_cv", plot_splits_cv(d, cv, return_data, show, env),
                    return_data, show)
    ELSE IF plot = "acf"
    THEN Dispatched("plot_acf", plot_acf(d, acf_d, return_data, show, env),
                    return_data, show)
    ELSE IF plot = "pacf"
    THEN Dispatched("plot_pacf", plot_pacf(d, pacf_d, return_data, show, env),
                    return_data, show)
    ELSE IF plot = "predictions"
    THEN Dispatched("plot_predictions", plot_predictions(d, p, return_data, show, env),
                    return_data, show)
    ELSE IF plot = "residuals"
    THEN Dispatched("plot_diagnostics", plot_diagnostics(d, acf_d, return_data, show, env),
                    return_data, show)
    ELSE Raise("ValueError", env)

-----------------------------------------------------------------------------
(* The state machine: a caller holding its arguments calls the functions *)

\* observations of 2..MaxLen periods starting at period 0, the first one 1
DataSeries == {Series(0, v) : v \in {u \in SeqsOver(Values, 2, MaxLen) : u[1] = 1}}

Prefix(s, k) == [index |-> SubSeq(s.index, 1, k), values |-> SubSeq(s.values, 1, k)]

Suffix(s, k) ==
    [index |-> SubSeq(s.index, k + 1, Len(s.index)),
     values |-> SubSeq(s.values, k + 1, Len(s.values))]

DefaultCv == [kind |-> "expanding", window_length |-> 1, step_length |-> 1, fh |-> <<1>>]

DefaultAcf(d) == CorrArray([x \in 1..(Len(d.values) - 1) |-> 1], 1)

Init ==
    /\ data \in DataSeries
    /\ train = Prefix(data, Len(data.values) - 1)
    /\ test = Suffix(data, Len(data.values) - 1)
    /\ predictions = Series(Len(data.values), <<data.values[1]>>)
    /\ upper_interval = Shift(predictions, 1)
    /\ lower_interval = Shift(predictions, -1)
    /\ cv_arg \in Cvs
    /\ acf_data \in acf(data)
    /\ cv_arg = DefaultCv \/ acf_data = DefaultAcf(data)
    /\ pacf_data = pacf(data, acf_data)
    /\ return_data_arg \in BOOLEAN
    /\ show_arg \in BOOLEAN
    /\ backend = "TkAgg"
    /\ open_figs = 0
    /\ call = [fn |-> "", plot |-> ""]
    /\ calls = <<>>
    /\ built = <<>>
    /\ shown = <<>>
    /\ result = Ret("None", NoFig, <<>>)

Env == [backend |-> backend, open_figs |-> open_figs]

\* The state after a call whose outcome is o
Done(fn, plot, o, cs) ==
    /\ call' = [fn |-> fn, plot |-> plot]
    /\ calls' = cs
    /\ built' = o.built
    /\ shown' = o.shown
    /\ result' = o.ret
    /\ backend' = o.env.backend
    /\ open_figs' = o.env.open_figs
    /\ UNCHANGED inputs

CallPlotSeries ==
    Done("plot_series", "", plot_series(data, return_data_arg, show_arg, Env), <<>>)

CallPlotSplitsTt ==
    Done("plot_splits_tt", "", plot_splits_tt(train, test, return_data_arg, show_arg, Env), <<>>)

CallPlotSplitsCv ==
    Done("plot_splits_cv", "", plot_splits_cv(data, cv_arg, return_data_arg, show_arg, Env), <<>>)

CallPlotAcf ==
    Done("plot_acf", "", plot_acf(data, acf_data, return_data_arg, show_arg, Env), <<>>)

CallPlotPacf ==
    Done("plot_pacf", "", plot_pacf(data, pacf_data, return_data_arg, show_arg, Env), <<>>)

CallPlotPredictions ==
    Done("plot_predictions", "",
         plot_predictions(data, predictions, return_data_arg, show_arg, Env), <<>>)

CallPlotDiagnostics ==
    Done("plot_diagnostics", "",
         plot_diagnostics(data, acf_data, return_data_arg, show_arg, Env), <<>>)

CallPlotPredictionsWithConfidence ==
    Done("plot_predictions_with_confidence", "",
         plot_predictions_with_confidence(data, predictions, upper_interval,
                                          lower_interval, return_data_arg, show_arg, Env),
         <<>>)

CallPlot ==
    \E plot \in PlotNames :
        LET o == plot_(plot, data, train, test, predictions, cv_arg, acf_data, pacf_data,
                       return_data_arg, show_arg, Env)
        IN  Done("plot_", plot, o, o.calls)

Next ==
    \/ CallPlotSeries
    \/ CallPlotSplitsTt
    \/ CallPlotSplitsCv
    \/ CallPlotAcf
    \/ CallPlotPacf
    \/ CallPlotPredictions
    \/ CallPlotDiagnostics
    \/ CallPlotPredictionsWithConfidence
    \/ CallPlot

Spec == Init /\ [][Next]_vars

-----------------------------------------------------------------------------
(* Properties *)

PlotFns == {"plot_series", "plot_splits_tt", "plot_splits_cv", "plot_acf", "plot_pacf",
            "plot_predictions", "plot_diagnostics", "plot_predictions_with_confidence"}

Raised == result.kind \in {"ValueError", "IndexError"}

\* the figure the plotting function of the last call built
TheFigure == built[1]

\* C1: every completed call of one of the eight plotting functions returns
\* a chart object: the figure itself when return_data is False, a tuple
\* whose first element is that figure when return_data is True, never None.
C1_ReturnsFigure ==
    (call.fn \in PlotFns /\ ~Raised) =>
        /\ result.kind # "None"
        /\ result.kind = (IF return_data_arg THEN "tuple" ELSE "fig")
        /\ Len(built) >= 1
        /\ result.fig = TheFigure
        /\ Len(Traces(result.fig)) >= 1 \/ call.fn = "plot_splits_cv"

C1_Witness ==
    /\ call.fn = "plot_predictions_with_confidence"
    /\ ~return_data_arg
    /\ result.kind = "fig"
    /\ Len(Traces(result.fig)) = 4

\* C2 as stated: for every supported plot name and both values of
\* return_data, what plot_ returns is, or holds as first element, the figure
\* built by the plotting function it dispatched to.
C2_Original ==
    (call.fn = "plot_" /\ call.plot \in Supported) =>
        /\ result.kind \in {"fig", "tuple"}
        /\ result.fig = TheFigure

\* C2 amended: for every supported plot name the dispatched function builds
\* a figure; plot_ returns the tuple holding that figure first when
\* return_data is True, and None when return_data is False.
C2_DispatcherResult ==
    (call.fn = "plot_" /\ call.plot \in Supported) =>
        /\ Len(built) >= 1
        /\ Len(calls) = 1
        /\ calls[1].ret.fig = TheFigure
        /\ IF return_data_arg
           THEN result.kind = "tuple" /\ result.fig = TheFigure
           ELSE result = None

C2_Witness ==
    /\ call.fn = "plot_"
    /\ call.plot = "residuals"
    /\ ~return_data_arg
    /\ result = None
    /\ Len(built) = 2

\* C3: plot_ accepts exactly the seven supported names; for any other name
\* it raises ValueError, having called no plotting function, built no figure
\* and shown none.
C3_UnsupportedRaises ==
    call.fn = "plot_" =>
        /\ (call.plot \in {"ts", "splits-tt", "splits_cv", "acf", "pacf",
                           "predictions", "residuals"}) <=> (result.kind # "ValueError")
        /\ (call.plot \in {"splits_tt", "splits-cv"}) => result.kind = "ValueError"
        /\ result.kind = "ValueError" =>
              calls = <<>> /\ built = <<>> /\ shown = <<>>

C3_Witness ==
    /\ call.fn = "plot_"
    /\ call.plot = "splits_tt"
    /\ show_arg
    /\ result.kind = "ValueError"
    /\ shown = <<>>

FnOf(plot) ==
    CASE plot = "ts" -> "plot_series"
      [] plot = "splits-tt" -> "plot_splits_tt"
      [] plot = "splits_cv" -> "plot_splits_cv"
      [] plot = "acf" -> "plot_acf"
      [] plot = "pacf" -> "plot_pacf"
      [] plot = "predictions" -> "plot_predictions"
      [] plot = "residuals" -> "plot_diagnostics"

\* C4: for a supported name plot_ calls exactly one plotting function, the
\* one of that name, with the caller's show and return_data, and when
\* return_data is True it returns that function's result unchanged.
C4_DispatchesOne ==
    (call.fn = "plot_" /\ call.plot \in Supported) =>
        /\ Len(calls) = 1
        /\ calls[1].fn = FnOf(call.plot)
        /\ calls[1].show = show_arg
        /\ calls[1].return_data = return_data_arg
        /\ calls[1].ret.kind = (IF return_data_arg THEN "tuple" ELSE "fig")
        /\ return_data_arg => result = calls[1].ret

C4_Witness ==
    /\ call.fn = "plot_"
    /\ call.plot = "predictions"
    /\ return_data_arg
    /\ Len(calls) = 1
    /\ result = calls[1].ret
    /\ Len(result.rest) = 2

\* C5 as stated: no call changes anything outside the figures it returns:
\* the caller's series stay as they were and no process-wide setting (the
\* matplotlib backend, the figures registered with pyplot) is altered.
C5_NoPersistence ==
    [][/\ UNCHANGED <<data, train, test, predictions, upper_interval, lower_interval>>
       /\ backend' = backend
       /\ open_figs' = open_figs]_vars

\* C6: a call that completes displays its figure exactly once when show is
\* True and never when show is False; what is displayed is the figure with
\* every trace and update applied; a call through plot_ displays at most one
\* figure.
C6_ShownOnceAtEnd ==
    /\ (call.fn \in PlotFns \cup {"plot_"} /\ ~Raised) =>
          shown = (IF show_arg THEN <<TheFigure>> ELSE <<>>)
    /\ call.fn = "plot_" => Len(shown) <= 1

C6_Witness ==
    /\ call.fn = "plot_diagnostics"
    /\ show_arg
    /\ Len(shown) = 1
    /\ shown[1][Len(shown[1])].arg = <<"title_text", "Value">>

Stems(fig) == SelectSeq(fig, LAMBDA o : o.op = "add_trace" /\ o.arg[1] = "Lag")

Named(fig, name) == SelectSeq(fig, LAMBDA o : o.op = "add_trace" /\ o.arg = <<name>>)

CorrOfCall == IF call.fn = "plot_acf" THEN acf_data ELSE pacf_data

\* C7: plot_acf and plot_pacf pass the library's values on unaltered: the
\* second element returned is the library's value array, there is exactly
\* one stem per lag x, from (x, 0) to (x, value[x]) and named Lag{x+1}, and
\* the band at each lag is the library's bound minus the value at that lag,
\* centred on zero.
C7_CorrelationUnaltered ==
    call.fn \in {"plot_acf", "plot_pacf"} =>
        LET corr == CorrOfCall
            n == Len(corr.values)
            stems == Stems(TheFigure)
            uc == Named(TheFigure, "UC")
            lc == Named(TheFigure, "LC")
        IN  /\ return_data_arg => (Len(result.rest) = 1 /\ result.rest[1] = corr.values)
            /\ Len(stems) = n
            /\ \A k \in 1..n :
                  /\ stems[k].x = <<k - 1, k - 1>>
                  /\ stems[k].y = <<0, corr.values[k]>>
                  /\ stems[k].arg = <<"Lag", k>>
            /\ Len(uc) = 1 /\ Len(lc) = 1
            /\ Len(uc[1].y) = n /\ Len(lc[1].y) = n
            /\ \A k \in 1..n :
                  /\ lc[1].y[k] = corr.confint[k][1] - corr.values[k]
                  /\ uc[1].y[k] = corr.confint[k][2] - corr.values[k]
                  /\ uc[1].y[k] + lc[1].y[k] = 0

C7_Witness ==
    /\ call.fn = "plot_pacf"
    /\ return_data_arg
    /\ Len(pacf_data.values) = 3
    /\ pacf_data.values[3] = -1
    /\ result.rest[1] = pacf_data.values
    /\ Named(TheFigure, "UC")[1].y[3] = 1

\* the segments one window is expected to add: name and window number
ExpectedWindow(n, w, num_window) ==
    [k \in 1..(n - 1) |-> <<"Unchanged", num_window>>]
    \o [k \in 1..(Len(w.train) - 1) |-> <<"Train", num_window>>]
    \o [k \in 1..(Len(w.test) - 1) |-> <<"ForecastHorizon", num_window>>]

ExpectedSegments(n, windows) ==
    Flatten([k \in 1..Len(windows) |->
                ExpectedWindow(n, windows[Len(windows) + 1 - k], Len(windows) - k)])

====
